---- MODULE Spec2Model ----
(***************************************************************************)
(* A model of the svg-sequence library (sequence.go): the Sequence         *)
(* aggregate with its actor registry, step list and section list, the      *)
(* construction calls that mutate it, and Generate, which validates the    *)
(* model, resolves the geometry and returns either an error or a document. *)
(*                                                                         *)
(* Representation                                                          *)
(*   - actor ids, section names and colours are strings; "" is Go's empty  *)
(*     string;                                                             *)
(*   - a Description is the sequence of its characters, "\n" being the     *)
(*     line break strings.Split cuts at;                                   *)
(*   - *section pointers are identifiers into the heap `heap`; NoSection   *)
(*     is the nil pointer; s.sections is the sequence `sections` of such   *)
(*     identifiers, so a step keeps its section when the list is rebuilt;  *)
(*   - *int indices hold Nil for the nil pointer;                          *)
(*   - float64 fields hold whole numbers everywhere except section.y,      *)
(*     which may end in .5 (float64(stepHeight)/2.0): section.y and the y  *)
(*     of a drawn box are therefore kept in HALF pixels (twice the value); *)
(*   - the document Generate returns is kept as the list of what it draws  *)
(*     (lifelines, boxes, step primitives, canvas size), not as XML text;  *)
(*   - the order in which Go iterates over the map actorsMap is a free     *)
(*     choice of each Generate call.                                       *)
(*                                                                         *)
(* Besides the program's state, three history variables record what the    *)
(* caller did: `last` (the latest call), `userOpen` (the *)
(* stack of sections the caller opened and has not yet matched with a      *)
(* close call) and `emptied` (sections closed right after being opened).   *)
(***************************************************************************)
EXTENDS Integers, Sequences, FiniteSets, TLC

\* ------------------------------------------------------------ constants
margin == 20
defaultDistance == 180
defaultStepHeight == 50
actorFontSize == 16
dashArraySize == actorFontSize \div 2
descriptionOffset == 7
descriptionOffsetFactor == 2
\* the colour AddStep and OpenSection substitute for ""
defaultColor == "#000000"
\* the initial height of a section
initialSectionHeight == 0 - 10

\* the nil *int of firstStepIndex / lastStepIndex (indices are >= 0)
Nil == -1
\* the nil *section of Step.section (heap identifiers are >= 1)
NoSection == 0

\* --------------------------------------------------------------- bounds
\* steps a run adds at most, per specification
MaxStepsActors == 2
MaxStepsSections == 2
MaxStepsHeights == 3
MaxStepsScenario == 3
\* sections a run opens at most
MaxSections == 2
\* Generate calls a run makes at most (section heights grow at each)
MaxGenerate == 1
\* Generate calls in a row that a run of repeated generation makes at most
MaxRepeat == 2
\* steps a run of repeated generation adds at most
MaxStepsRepeat == 2

\* ---------------------------------------------------------- input sets
Range(s) == {s[i] : i \in DOMAIN s}
ActorIds == {"A", "B", "C"}
ActorArgs == {"", "A", "B", "C"}
\* the sources and targets of the steps of the actor registry's runs
StepActorArgs == {"", "A", "B"}
\* the argument lists of AddActors: every list of at most two ids, "" and
\* repetitions included, and the orders of all three ids
ActorLists ==
  {<<>>} \cup {<<a>> : a \in ActorArgs}
         \cup {<<a, b>> : a \in ActorArgs, b \in ActorArgs}
         \cup {l \in [1..3 -> ActorIds] : Cardinality(Range(l)) = 3}
\* the empty description and descriptions of two and three lines
Descriptions == {<<>>, <<"x", "\n", "y">>, <<"\n", "x", "\n">>}
\* the name a caller gives to the n-th section it opens
SectionNames == <<"S", "T", "U", "V">>
Distances == {0, 0 - 3}
\* the descriptions of the documented example: one line for a step between
\* two actors, two lines for a step of an actor to itself
ScenarioDescription(src, tgt) ==
  IF src = tgt THEN <<"x", "\n", "y">> ELSE <<"x">>
StepHeights == {50, 25, 0, 0 - 3, 0 - 20}

\* -------------------------------------------------------------- state
VARIABLES
  actors,               \* s.actors: the ordered actor list
  actorsMap,            \* s.actorsMap: id -> actor.x
  heap,                 \* the section objects, by identifier
  sections,             \* s.sections: identifiers, in list order
  steps,                \* s.steps
  distance,             \* s.distance
  stepHeight,           \* s.stepHeight
  verticalSectionText,  \* s.verticalSectionText
  result,               \* what the latest Generate returned
  generated,            \* how many times Generate ran
  last,                 \* history: the latest call
  userOpen,             \* history: sections opened and not yet matched by a close call
  emptied               \* history: sections closed by the call right after their OpenSection

vars == <<actors, actorsMap, heap, sections, steps, distance, stepHeight,
          verticalSectionText, result, generated, last, userOpen, emptied>>

\* ------------------------------------------------------------- helpers
Max(a, b) == IF a >= b THEN a ELSE b
Min(a, b) == IF a <= b THEN a ELSE b
Abs(a) == IF a < 0 THEN 0 - a ELSE a
SetMax(S) == CHOOSE x \in S : \A y \in S : y <= x
SetMin(S) == CHOOSE x \in S : \A y \in S : x <= y

\* Go's integer division and remainder truncate toward zero
GoDiv(a, b) == IF a >= 0 THEN a \div b ELSE 0 - ((0 - a) \div b)
GoMod(a, b) == a - b * GoDiv(a, b)

\* slices.Contains
Contains(s, a) == \E i \in DOMAIN s : s[i] = a

\* len(strings.Split(description, "\n"))
LineCount(description) ==
  1 + Cardinality({i \in DOMAIN description : description[i] = "\n"})

\* the call record kept in `last`
Call(op, sec) == [op |-> op, sec |-> sec]

\* ------------------------------------------------------------- errors
Err(kind, pos, name) == [kind |-> kind, pos |-> pos, name |-> name]
NoErr == Err("nil", 0, "")
ErrNoActors == Err("sequence has no actors", 0, "")
ErrNoSteps == Err("sequence has no steps", 0, "")
ErrEmptyActor(pos) == Err("step defined an actor with an empty name", pos, "")
ErrOpenSection(name) == Err("found open section", 0, name)
ErrNilActor == Err("panic: nil actor", 0, "")
NotCalled == Err("Generate not called", 0, "")

\* the empty string Generate returns with an error
NoDoc == [width |-> 0, height |-> 0, lifelines |-> <<>>, boxes |-> <<>>,
          prims |-> <<>>]

\* ---------------------------------------------------------------- Init
\* NewSequence()
Init ==
  /\ actors = <<>>
  /\ actorsMap = <<>>
  /\ heap = <<>>
  /\ sections = <<>>
  /\ steps = <<>>
  /\ distance = defaultDistance
  /\ stepHeight = defaultStepHeight
  /\ verticalSectionText = FALSE
  /\ result = [err |-> NotCalled, doc |-> NoDoc]
  /\ generated = 0
  /\ last = Call("NewSequence", NoSection)
  /\ userOpen = <<>>
  /\ emptied = {}

\* -------------------------------------------------------------- setters
SetDistance(d) ==
  /\ distance' = d
  /\ last' = Call("SetDistance", NoSection)
  /\ UNCHANGED <<actors, actorsMap, heap, sections, steps, stepHeight,
                 verticalSectionText, result, generated, userOpen, emptied>>

SetStepHeight(h) ==
  /\ stepHeight' = h
  /\ last' = Call("SetStepHeight", NoSection)
  /\ UNCHANGED <<actors, actorsMap, heap, sections, steps, distance,
                 verticalSectionText, result, generated, userOpen, emptied>>

SetVerticalSectionText(b) ==
  /\ verticalSectionText' = b
  /\ last' = Call("SetVerticalSectionText", NoSection)
  /\ UNCHANGED <<actors, actorsMap, heap, sections, steps, distance,
                 stepHeight, result, generated, userOpen, emptied>>

\* ------------------------------------------------------------ AddActors
\* the first loop of AddActors: the ids of the call that actorsMap does not
\* hold yet, "" skipped, each entered in the map as soon as it is met
RECURSIVE NewActors(_, _)
NewActors(ids, known) ==
  IF ids = <<>> THEN <<>>
  ELSE LET a == Head(ids) IN
       IF a = "" \/ a \in known
       THEN NewActors(Tail(ids), known)
       ELSE <<a>> \o NewActors(Tail(ids), known \cup {a})

\* the second loop of AddActors: the listed actors the call does not name
Remaining(list, ids) == SelectSeq(list, LAMBDA a : ~Contains(ids, a))

\* s.actors after AddActors(ids...)
ActorsAfterAddActors(list, map, ids) ==
  NewActors(ids, DOMAIN map) \o Remaining(list, ids)

\* s.actorsMap after AddActors(ids...): a fresh &actor{} for each new id
MapAfterAddActors(map, ids) ==
  [a \in DOMAIN map \cup Range(NewActors(ids, DOMAIN map)) |->
     IF a \in DOMAIN map THEN map[a] ELSE 0]

AddActors(ids) ==
  /\ actors' = ActorsAfterAddActors(actors, actorsMap, ids)
  /\ actorsMap' = MapAfterAddActors(actorsMap, ids)
  /\ last' = Call("AddActors", NoSection)
  /\ UNCHANGED <<heap, sections, steps, distance, stepHeight,
                 verticalSectionText, result, generated, userOpen, emptied>>

\* -------------------------------------------------------------- AddStep
\* ensureActor appending to the list without creating the record
ensureActorListOnly(reg, a) ==
  IF ~Contains(reg.actors, a)
  THEN [actors |-> Append(reg.actors, a), actorsMap |-> reg.actorsMap]
  ELSE reg

\* ensureActor on the registry reg = [actors, actorsMap]
ensureActor(reg, a) ==
  IF ~Contains(reg.actors, a)
  THEN [actors |-> Append(reg.actors, a),
        actorsMap |-> [b \in DOMAIN reg.actorsMap \cup {a} |->
                         IF b = a THEN 0 ELSE reg.actorsMap[b]]]
  ELSE reg

\* the two guarded ensureActor calls of AddStep
EnsureStepActors(reg, src, tgt) ==
  LET r1 == IF src # "" THEN ensureActor(reg, src) ELSE reg
  IN IF tgt # "" THEN ensureActor(r1, tgt) ELSE r1

\* StepY with every description line counted as an extra line
StepYEveryLineExtra(list, h, description) ==
  (IF Len(list) > 0 THEN list[Len(list)].y ELSE actorFontSize + 2)
    + h
    + (descriptionOffset * descriptionOffsetFactor) * LineCount(description)

\* the y AddStep gives a step: the previous step's y (or the origin) plus
\* the step height plus the offset of its extra description lines
StepY(list, h, description) ==
  (IF Len(list) > 0 THEN list[Len(list)].y ELSE actorFontSize + 2)
    + h
    + (descriptionOffset * descriptionOffsetFactor) * (LineCount(description) - 1)

\* AssociateSections giving the index only to the last listed section
\* without a last index
AssociateInnermostOnly(h, secs, n) ==
  [id \in DOMAIN h |->
     IF /\ Contains(secs, id)
        /\ h[id].firstStepIndex = Nil
        /\ \A j \in DOMAIN secs :
             (secs[j] > id) => h[secs[j]].lastStepIndex # Nil
     THEN [h[id] EXCEPT !.firstStepIndex = n]
     ELSE h[id]]

\* the section loop of AddStep, first half: every listed section without a
\* first index takes the new step's index n
AssociateSections(h, secs, n) ==
  [id \in DOMAIN h |->
     IF Contains(secs, id) /\ h[id].firstStepIndex = Nil
     THEN [h[id] EXCEPT !.firstStepIndex = n]
     ELSE h[id]]

\* StepSection without the test of the last index: the last listed section
StepSectionIgnoringClose(h, secs) ==
  IF secs = <<>> THEN NoSection ELSE secs[Len(secs)]

\* the section loop of AddStep, second half: step.section is the last listed
\* section without a last index
StepSection(h, secs) ==
  LET open == {i \in DOMAIN secs : h[secs[i]].lastStepIndex = Nil}
  IN IF open = {} THEN NoSection ELSE secs[SetMax(open)]

AddStep(src, tgt, description, color) ==
  LET reg == EnsureStepActors([actors |-> actors, actorsMap |-> actorsMap], src, tgt)
      st == [Description |-> description,
             SourceActor |-> src,
             TargetActor |-> tgt,
             Color |-> IF color = "" THEN defaultColor ELSE color,
             x1 |-> 0, x2 |-> 0,
             y |-> StepY(steps, stepHeight, description),
             section |-> StepSection(heap, sections)]
  IN /\ heap' = AssociateSections(heap, sections, Len(steps))
     /\ actors' = reg.actors
     /\ actorsMap' = reg.actorsMap
     /\ steps' = Append(steps, st)
     /\ last' = Call("AddStep", NoSection)
     /\ UNCHANGED <<sections, distance, stepHeight, verticalSectionText,
                    result, generated, userOpen, emptied>>

\* ------------------------------------------------------------- sections
NewSection(name, color) ==
  [name |-> name,
   color |-> IF color = "" THEN defaultColor ELSE color,
   firstStepIndex |-> Nil, lastStepIndex |-> Nil,
   x |-> 0, x2 |-> 0, y |-> 0, width |-> 0,
   height |-> initialSectionHeight]

OpenSection(name, color) ==
  IF name = ""
  THEN /\ last' = Call("OpenSection", NoSection)
       /\ UNCHANGED <<actors, actorsMap, heap, sections, steps, distance,
                      stepHeight, verticalSectionText, result, generated,
                      userOpen, emptied>>
  ELSE /\ heap' = Append(heap, NewSection(name, color))
       /\ sections' = Append(sections, Len(heap) + 1)
       /\ userOpen' = Append(userOpen, Len(heap) + 1)
       /\ last' = Call("OpenSection", Len(heap) + 1)
       /\ UNCHANGED <<actors, actorsMap, steps, distance, stepHeight,
                      verticalSectionText, result, generated, emptied>>

\* the positions in s.sections of the sections with a first and no last index
OpenWithSteps(h, secs) ==
  {i \in DOMAIN secs : h[secs[i]].firstStepIndex # Nil
                       /\ h[secs[i]].lastStepIndex = Nil}

\* CloseSectionHeap with len(s.steps) for len(s.steps) - 1
CloseSectionHeapPastEnd(h, secs, n) ==
  IF OpenWithSteps(h, secs) = {} THEN h
  ELSE [h EXCEPT ![secs[SetMax(OpenWithSteps(h, secs))]].lastStepIndex = n]

\* CloseSection: the last such section gets the index of the last of n steps
CloseSectionHeap(h, secs, n) ==
  IF OpenWithSteps(h, secs) = {} THEN h
  ELSE [h EXCEPT ![secs[SetMax(OpenWithSteps(h, secs))]].lastStepIndex = n - 1]

CloseSection ==
  /\ heap' = CloseSectionHeap(heap, sections, Len(steps))
  /\ userOpen' = IF userOpen = <<>> THEN <<>>
                 ELSE SubSeq(userOpen, 1, Len(userOpen) - 1)
  /\ emptied' = IF last.op = "OpenSection" /\ last.sec # NoSection
                THEN emptied \cup {last.sec} ELSE emptied
  /\ last' = Call("CloseSection", NoSection)
  /\ UNCHANGED <<actors, actorsMap, sections, steps, distance, stepHeight,
                 verticalSectionText, result, generated>>

\* CloseAllSections, first loop: every such section gets the last index
CloseAllHeap(h, secs, n) ==
  [id \in DOMAIN h |->
     IF \E i \in OpenWithSteps(h, secs) : secs[i] = id
     THEN [h[id] EXCEPT !.lastStepIndex = n - 1]
     ELSE h[id]]

\* CloseAllSections, second loop: the sections with both indices
CompleteSections(h, secs) ==
  SelectSeq(secs, LAMBDA id : h[id].firstStepIndex # Nil
                              /\ h[id].lastStepIndex # Nil)

CloseAllSections ==
  /\ heap' = CloseAllHeap(heap, sections, Len(steps))
  /\ sections' = CompleteSections(CloseAllHeap(heap, sections, Len(steps)), sections)
  /\ userOpen' = <<>>
  /\ last' = Call("CloseAllSections", NoSection)
  /\ UNCHANGED <<actors, actorsMap, steps, distance, stepHeight,
                 verticalSectionText, result, generated, emptied>>

\* ------------------------------------------------------------- Generate
\* FirstEmptyActorStep with "and" for "or": only steps with both ids empty
FirstEmptyActorStepBothEmpty(list) ==
  LET bad == {i \in DOMAIN list : list[i].SourceActor = ""
                                  /\ list[i].TargetActor = ""}
  IN IF bad = {} THEN 0 ELSE SetMin(bad)

\* setup, first loop: the 1-based position of the first step with an empty
\* source or target, 0 when there is none
FirstEmptyActorStep(list) ==
  LET bad == {i \in DOMAIN list : list[i].SourceActor = ""
                                  \/ list[i].TargetActor = ""}
  IN IF bad = {} THEN 0 ELSE SetMin(bad)

\* FullSections without the deletion of the empty sections
FullSectionsKeepAll(h, secs) == secs

\* setup, second loop: the sections that have a first index
FullSections(h, secs) == SelectSeq(secs, LAMBDA id : h[id].firstStepIndex # Nil)

\* FirstUnclosed reporting the last section without a last index
FirstUnclosedFromEnd(h, secs) ==
  LET open == {i \in DOMAIN secs : h[secs[i]].lastStepIndex = Nil}
  IN IF open = {} THEN NoSection ELSE secs[SetMax(open)]

\* setup, third loop: the first listed section without a last index
FirstUnclosed(h, secs) ==
  LET open == {i \in DOMAIN secs : h[secs[i]].lastStepIndex = Nil}
  IN IF open = {} THEN NoSection ELSE secs[SetMin(open)]

\* setup: the error it returns and s.sections as it leaves it
setup(list, h, secs) ==
  IF FirstEmptyActorStep(list) # 0
  THEN [err |-> ErrEmptyActor(FirstEmptyActorStep(list)), sections |-> secs]
  ELSE LET full == FullSections(h, secs)
       IN IF FirstUnclosed(h, full) # NoSection
          THEN [err |-> ErrOpenSection(h[FirstUnclosed(h, full)].name),
                sections |-> full]
          ELSE [err |-> NoErr, sections |-> full]

\* the orders in which `for range s.actorsMap` may visit the keys: Go leaves
\* the iteration order of a map unspecified
KeyOrders(map) ==
  {o \in [1..Cardinality(DOMAIN map) -> DOMAIN map] : Range(o) = DOMAIN map}

\* totalWidth with a loop that stops once it has visited the key "A"
RECURSIVE totalWidthUntilA(_, _)
totalWidthUntilA(order, d) ==
  IF order = <<>> THEN margin * 2
  ELSE IF Head(order) = "A" THEN margin * 2 + d
  ELSE d + totalWidthUntilA(Tail(order), d)

\* totalWidth: one distance per key of actorsMap, the keys visited in the
\* given order
RECURSIVE totalWidth(_, _)
totalWidth(order, d) ==
  IF order = <<>> THEN margin * 2 ELSE d + totalWidth(Tail(order), d)

\* getHeight: the step height plus the offset of the extra description lines
getHeight(h, description) ==
  h + (descriptionOffset * descriptionOffsetFactor) * (LineCount(description) - 1)

RECURSIVE SumHeights(_, _)
SumHeights(list, h) ==
  IF list = <<>> THEN 0
  ELSE getHeight(h, Head(list).Description) + SumHeights(Tail(list), h)

\* RoundUpToDash adding a whole unit to a height that already fits
RoundUpPastDash(height) ==
  height + (dashArraySize - GoMod(height, dashArraySize))

\* the loop `for height%dashArraySize != 0 { height++ }`
RECURSIVE RoundUpToDash(_)
RoundUpToDash(height) ==
  IF GoMod(height, dashArraySize) # 0 THEN RoundUpToDash(height + 1) ELSE height

totalHeight(list, h) ==
  RoundUpToDash(actorFontSize + 2 + SumHeights(list, h) + GoDiv(h, 2))

\* "Draw actors": each listed actor gets the running x, which then advances
\* by the distance; acc = [map, lifelines]
RECURSIVE DrawActors(_, _, _, _)
DrawActors(names, x, d, acc) ==
  IF names = <<>> THEN acc
  ELSE DrawActors(Tail(names), x + d, d,
                  [map |-> [acc.map EXCEPT ![Head(names)] = x],
                   lifelines |-> Append(acc.lifelines,
                                        [name |-> Head(names), x |-> x])])

\* FoldSection taking a y only for a section whose y is still 0
FoldSectionFirstYOnly(sec, st, x1, x2, d, h) ==
  LET stHeight == getHeight(h, st.Description)
      minSecY == Max(0, 2 * st.y - 2 * stHeight + h)
      minSecX == Max(1, Min(x1, x2) - GoDiv(d, 2))
      maxSecX == Max(x1, x2) + GoDiv(d, 2)
      newX == IF sec.x = 0 \/ sec.x > minSecX THEN minSecX ELSE sec.x
      newX2 == IF sec.x2 = 0 \/ sec.x2 < maxSecX THEN maxSecX ELSE sec.x2
      sw == Max(0, Abs(newX - newX2))
  IN [sec EXCEPT !.height = sec.height + stHeight,
                 !.y = IF sec.y = 0 THEN minSecY ELSE sec.y,
                 !.x = newX,
                 !.x2 = newX2,
                 !.width = IF sec.width < sw THEN sw ELSE sec.width]

\* "Compute steps and section values", one step: its section's running box
\* (section.y in half pixels)
FoldSection(sec, st, x1, x2, d, h) ==
  LET stHeight == getHeight(h, st.Description)
      minSecY == Max(0, 2 * st.y - 2 * stHeight + h)
      minSecX == Max(1, Min(x1, x2) - GoDiv(d, 2))
      maxSecX == Max(x1, x2) + GoDiv(d, 2)
      newX == IF sec.x = 0 \/ sec.x > minSecX THEN minSecX ELSE sec.x
      newX2 == IF sec.x2 = 0 \/ sec.x2 < maxSecX THEN maxSecX ELSE sec.x2
      sw == Max(0, Abs(newX - newX2))
  IN [sec EXCEPT !.height = sec.height + stHeight,
                 !.y = IF sec.y = 0 \/ sec.y > minSecY THEN minSecY ELSE sec.y,
                 !.x = newX,
                 !.x2 = newX2,
                 !.width = IF sec.width < sw THEN sw ELSE sec.width]

\* "Compute steps and section values", the loop from step i on;
\* acc = [steps, heap]
RECURSIVE ResolveSteps(_, _, _, _, _)
ResolveSteps(i, acc, map, d, h) ==
  IF i > Len(acc.steps) THEN acc
  ELSE LET st == acc.steps[i]
           x1 == map[st.SourceActor]
           x2 == map[st.TargetActor]
       IN ResolveSteps(i + 1,
            [steps |-> [acc.steps EXCEPT ![i] = [st EXCEPT !.x1 = x1, !.x2 = x2]],
             heap |-> IF st.section # NoSection
                      THEN [acc.heap EXCEPT ![st.section] =
                              FoldSection(acc.heap[st.section], st, x1, x2, d, h)]
                      ELSE acc.heap],
            map, d, h)

\* "Draw sections": the offsets a horizontal label takes from the section
\* (2 pixels of y are 4 half pixels)
OffsetSection(sec, vertical) ==
  IF vertical THEN sec
  ELSE [sec EXCEPT !.height = sec.height - 4, !.y = sec.y + 4, !.x2 = sec.x2 - 2]

\* the rect drawn for a section
Box(id, sec) ==
  [sec |-> id, name |-> sec.name, x |-> sec.x, y |-> sec.y,
   width |-> sec.width, height |-> sec.height]

\* "Draw steps": a circle when the two ends have the same x, a line otherwise
Primitive(st) ==
  IF st.x1 = st.x2
  THEN [kind |-> "dot", x1 |-> st.x1, x2 |-> st.x1, y |-> st.y,
        texts |-> IF st.Description # <<>> THEN LineCount(st.Description) ELSE 0]
  ELSE [kind |-> "arrow", x1 |-> st.x1,
        x2 |-> IF st.x1 < st.x2 THEN st.x2 - 5 ELSE st.x2 + 5, y |-> st.y,
        texts |-> IF st.Description # <<>> THEN LineCount(st.Description) ELSE 0]

\* whether Generate would read the x of a nil *actor
NilActorRead(names, list, map) ==
  \/ \E i \in DOMAIN names : names[i] \notin DOMAIN map
  \/ \E i \in DOMAIN list : list[i].SourceActor \notin DOMAIN map
                            \/ list[i].TargetActor \notin DOMAIN map

\* Generate past its checks: the state it leaves and the document it returns
Layout(secs, order) ==
  LET drawn == DrawActors(actors, margin + GoDiv(distance, 2), distance,
                          [map |-> actorsMap, lifelines |-> <<>>])
      res == ResolveSteps(1, [steps |-> steps, heap |-> heap], drawn.map,
                          distance, stepHeight)
      h2 == [id \in DOMAIN res.heap |->
               IF Contains(secs, id)
               THEN OffsetSection(res.heap[id], verticalSectionText)
               ELSE res.heap[id]]
  IN [map |-> drawn.map, steps |-> res.steps, heap |-> h2,
      doc |-> [width |-> totalWidth(order, distance),
               height |-> totalHeight(steps, stepHeight),
               lifelines |-> drawn.lifelines,
               boxes |-> [i \in DOMAIN secs |-> Box(secs[i], h2[secs[i]])],
               prims |-> [i \in DOMAIN res.steps |-> Primitive(res.steps[i])]]]

\* the error Generate returns (the xml encoder is given only values it can
\* encode, so its error branch is not taken)
GenerateErr ==
  IF Len(actors) = 0 THEN ErrNoActors
  ELSE IF Len(steps) = 0 THEN ErrNoSteps
  ELSE IF setup(steps, heap, sections).err # NoErr
  THEN setup(steps, heap, sections).err
  ELSE IF NilActorRead(actors, steps, actorsMap) THEN ErrNilActor
  ELSE NoErr

\* what a Generate call returns and the state it leaves, when totalWidth
\* visits the keys of actorsMap in the given order
Outcome(order) ==
  IF Len(actors) = 0 \/ Len(steps) = 0
  THEN [result |-> [err |-> GenerateErr, doc |-> NoDoc],
        sections |-> sections, actorsMap |-> actorsMap, heap |-> heap,
        steps |-> steps]
  ELSE LET su == setup(steps, heap, sections) IN
       IF GenerateErr # NoErr
       THEN [result |-> [err |-> GenerateErr, doc |-> NoDoc],
             sections |-> su.sections, actorsMap |-> actorsMap, heap |-> heap,
             steps |-> steps]
       ELSE LET lay == Layout(su.sections, order) IN
            [result |-> [err |-> NoErr, doc |-> lay.doc],
             sections |-> su.sections, actorsMap |-> lay.map,
             heap |-> lay.heap, steps |-> lay.steps]

Generate ==
  \E order \in KeyOrders(actorsMap) :
    LET out == Outcome(order) IN
    /\ generated' = generated + 1
    /\ last' = Call("Generate", NoSection)
    /\ result' = out.result
    /\ sections' = out.sections
    /\ actorsMap' = out.actorsMap
    /\ heap' = out.heap
    /\ steps' = out.steps
    /\ UNCHANGED <<actors, distance, stepHeight, verticalSectionText, userOpen,
                   emptied>>

\* ------------------------------------------------------- specifications
\* The actor registry. A run of this specification builds the model with
\* AddActors, AddStep (sources and targets "A", "B" and ""; no description,
\* no sections) and SetDistance, and then calls Generate.
NextActors ==
  \/ generated = 0 /\ \E ids \in ActorLists : AddActors(ids)
  \/ /\ generated = 0
     /\ Len(steps) < MaxStepsActors
     /\ \E src \in StepActorArgs, tgt \in StepActorArgs :
          AddStep(src, tgt, <<>>, "")
  \/ generated = 0 /\ \E d \in Distances : SetDistance(d)
  \/ generated < MaxGenerate /\ Generate

SpecActors == Init /\ [][NextActors]_vars

\* The section tracker. A run of this specification opens and closes
\* sections (named S, T, ... in the order of opening, or given the empty
\* name) around steps A -> A and steps whose source and target are both
\* empty, and calls Generate at any point, construction calls going on after
\* it.
NextSections ==
  \/ AddActors(<<"A">>)
  \/ /\ Len(steps) < MaxStepsSections
     /\ \E a \in {"", "A"} : AddStep(a, a, <<>>, "")
  \/ /\ Len(heap) < MaxSections
     /\ \E name \in {"", SectionNames[Len(heap) + 1]} : OpenSection(name, "")
  \/ CloseSection
  \/ CloseAllSections
  \/ generated < MaxGenerate /\ Generate

SpecSections == Init /\ [][NextSections]_vars

\* The step sequencer. A run of this specification sets step heights and adds
\* steps A -> A with descriptions of one to three lines, and then calls
\* Generate.
NextHeights ==
  \/ generated = 0 /\ \E h \in StepHeights : SetStepHeight(h)
  \/ /\ generated = 0
     /\ Len(steps) < MaxStepsHeights
     /\ \E description \in Descriptions : AddStep("A", "A", description, "")
  \/ generated < MaxGenerate /\ Generate

SpecHeights == Init /\ [][NextHeights]_vars

\* The documented use. A run of this specification builds the model the way
\* the README example and TestNewSequence do, with AddStep, OpenSection and
\* CloseSection only: steps between the actors A and B (described as in the
\* example: two lines for a step of an actor to itself), a section opened
\* only when none is open and closed only after it received a step; then it
\* calls Generate.
NextScenario ==
  \/ /\ generated = 0
     /\ Len(steps) < MaxStepsScenario
     /\ \E src \in {"A", "B"}, tgt \in {"A", "B"} :
          AddStep(src, tgt, ScenarioDescription(src, tgt), "")
  \/ /\ generated = 0
     /\ Len(heap) < MaxSections
     /\ userOpen = <<>>
     /\ OpenSection(SectionNames[Len(heap) + 1], "")
  \/ /\ generated = 0
     /\ userOpen # <<>>
     /\ heap[userOpen[Len(userOpen)]].firstStepIndex # Nil
     /\ CloseSection
  \/ generated < MaxGenerate /\ Generate

SpecScenario == Init /\ [][NextScenario]_vars

\* Repeated generation. A run of this specification chooses the label
\* orientation first, builds a model with steps from A to A (one line) or
\* from A to B (two lines) and sections, and then calls Generate several
\* times in a row.
NextRepeat ==
  \/ /\ generated = 0
     /\ Len(steps) < MaxStepsRepeat
     /\ \/ AddStep("A", "A", <<"x">>, "")
        \/ AddStep("A", "B", <<"x", "\n", "y">>, "")
  \/ /\ generated = 0
     /\ Len(heap) < MaxSections
     /\ OpenSection(SectionNames[Len(heap) + 1], "")
  \/ generated = 0 /\ CloseSection
  \/ last.op = "NewSequence" /\ SetVerticalSectionText(TRUE)
  \/ generated < MaxRepeat /\ Generate

SpecRepeat == Init /\ [][NextRepeat]_vars

\* ================================================================ claims

\* the ids of a call as the claim reads them: "" dropped, repetitions
\* collapsed to the first occurrence
RECURSIVE CallOrder(_, _)
CallOrder(ids, seen) ==
  IF ids = <<>> THEN <<>>
  ELSE IF Head(ids) = "" \/ Head(ids) \in seen
       THEN CallOrder(Tail(ids), seen)
       ELSE <<Head(ids)>> \o CallOrder(Tail(ids), seen \cup {Head(ids)})

\* C1: every AddActors(ids...) call leaves the ordered actor list equal to
\* the non-empty ids of the call, repetitions collapsed, in call order,
\* followed by the previously listed actors the call does not name, in their
\* previous order (so [A,B,C] and AddActors(C, A) give [C,A,B]).
C1_AddActorsReorders ==
  [][\A ids \in ActorLists :
       AddActors(ids) =>
         actors' = CallOrder(ids, {})
                     \o SelectSeq(actors, LAMBDA a : ~Contains(ids, a))]_vars

\* C2: no call ever shortens the ordered actor list or drops an id from it.
C2_ActorsNeverLost ==
  [][/\ Len(actors') >= Len(actors)
     /\ Range(actors) \subseteq Range(actors')]_vars

\* the lane of the i-th listed actor
LaneOf(i) == margin + GoDiv(distance, 2) + (i - 1) * distance

\* C7: after a successful Generate every actor ever registered (every key of
\* actorsMap: keys are never deleted) is listed and has the lane of its
\* position, and every step's x1/x2 are the lanes of its source and target.
C7_EveryActorHasItsLane ==
  (last.op = "Generate" /\ result.err = NoErr) =>
    /\ \A a \in DOMAIN actorsMap :
         \E i \in DOMAIN actors : actors[i] = a /\ actorsMap[a] = LaneOf(i)
    /\ \A k \in DOMAIN steps :
         /\ \E i \in DOMAIN actors :
              actors[i] = steps[k].SourceActor /\ steps[k].x1 = LaneOf(i)
         /\ \E i \in DOMAIN actors :
              actors[i] = steps[k].TargetActor /\ steps[k].x2 = LaneOf(i)

\* C8: after a successful Generate a step is drawn as a dot exactly when its
\* source and target are the same actor, and as an arrow otherwise.
C8_DotIffSelfCall ==
  (last.op = "Generate" /\ result.err = NoErr) =>
    \A k \in DOMAIN steps :
      result.doc.prims[k].kind =
        IF steps[k].SourceActor = steps[k].TargetActor THEN "dot" ELSE "arrow"

\* the positions of the steps with an empty source or target
EmptyActorSteps == {k \in DOMAIN steps : steps[k].SourceActor = ""
                                         \/ steps[k].TargetActor = ""}

\* the listed sections that received a step and have no last index, by
\* position in s.sections
UnclosedWithSteps ==
  {i \in DOMAIN sections : heap[sections[i]].firstStepIndex # Nil
                           /\ heap[sections[i]].lastStepIndex = Nil}

\* C3: a section closed by the CloseSection call that directly follows its
\* OpenSection is discarded: it is never the section of a step, never among
\* the boxes Generate draws, and never the section Generate fails on.
C3_EmptySectionDiscarded ==
  [][/\ \A id \in emptied' :
          /\ \A k \in DOMAIN steps' : steps'[k].section # id
          /\ \A b \in DOMAIN result'.doc.boxes : result'.doc.boxes[b].sec # id
     /\ (last'.op = "Generate" /\ result'.err.kind = "found open section")
          => FirstUnclosed(heap, FullSections(heap, sections)) \notin emptied]_vars

\* C4, as claimed (and read with at least one step): with at least one
\* actor and no step with an empty source or target, Generate fails naming
\* each section that was opened and never closed, and succeeds when
\* CloseAllSections is the call before it.
C4_UnclosedSectionNamed ==
  [][(last'.op = "Generate" /\ Len(actors) > 0 /\ Len(steps) > 0
        /\ EmptyActorSteps = {}) =>
       /\ \A id \in Range(userOpen) :
            heap[id].lastStepIndex = Nil
              => result'.err = ErrOpenSection(heap[id].name)
       /\ last.op = "CloseAllSections" => result'.err = NoErr]_vars

\* C4, amended: with at least one actor, at least one step and no step with
\* an empty source or target, Generate fails exactly when some listed section
\* has received a step and has no last index, and the error then names the
\* first such section in opening order; sections that never received a step
\* cause no error; Generate succeeds when CloseAllSections is the call
\* before it.
C4_UnclosedSectionWithStepsNamed ==
  [][(last'.op = "Generate" /\ Len(actors) > 0 /\ Len(steps) > 0
        /\ EmptyActorSteps = {}) =>
       /\ UnclosedWithSteps # {}
            => /\ result'.err =
                    ErrOpenSection(heap[sections[SetMin(UnclosedWithSteps)]].name)
               /\ result'.doc = NoDoc
       /\ UnclosedWithSteps = {} => result'.err = NoErr
       /\ last.op = "CloseAllSections" => result'.err = NoErr]_vars

\* C4 witness: Generate has failed on S, the first of two sections that both
\* received a step and were not closed.
C4_Witness ==
  /\ last.op = "Generate"
  /\ result.err = ErrOpenSection("S")
  /\ Len(heap) = 2
  /\ \A id \in DOMAIN heap : heap[id].firstStepIndex # Nil
                             /\ heap[id].lastStepIndex = Nil

\* C5: before any Generate, a CloseSection call closes the section opened
\* last among those not yet matched by a close call and changes no other
\* section, and a new step goes to the section opened last among those not
\* yet matched by a close call (to none when there is none).
C5_CloseSectionIsLIFO ==
  [][generated = 0 =>
       /\ (last'.op = "CloseSection" /\ userOpen # <<>>) =>
            LET top == userOpen[Len(userOpen)] IN
            /\ heap[top].firstStepIndex # Nil
                 => heap'[top].lastStepIndex = Len(steps) - 1
            /\ \A id \in DOMAIN heap \ {top} : heap'[id] = heap[id]
       /\ last'.op = "AddStep" =>
            steps'[Len(steps')].section =
              IF userOpen = <<>> THEN NoSection ELSE userOpen[Len(userOpen)]]_vars

\* C9, as claimed: Generate returns an error and no document when there are
\* no actors, no steps, a step with an empty source or target, or a listed
\* section without a last index; otherwise a document and no error.
C9_ErrorIffAnySectionUnclosed ==
  [][last'.op = "Generate" =>
       IF \/ Len(actors) = 0
          \/ Len(steps) = 0
          \/ EmptyActorSteps # {}
          \/ \E i \in DOMAIN sections : heap[sections[i]].lastStepIndex = Nil
       THEN result'.err # NoErr /\ result'.doc = NoDoc
       ELSE result'.err = NoErr /\ result'.doc # NoDoc]_vars

\* C9, amended: Generate returns an error and no document when there are no
\* actors, no steps, a step with an empty source or target, or a listed
\* section that received a step and has no last index; otherwise (unclosed
\* sections that never received a step included) it returns no error and a
\* complete document: a lifeline per listed actor, a box per listed section
\* that received a step, a primitive per step.
C9_AllOrNothing ==
  [][last'.op = "Generate" =>
       IF \/ Len(actors) = 0
          \/ Len(steps) = 0
          \/ EmptyActorSteps # {}
          \/ UnclosedWithSteps # {}
       THEN result'.err # NoErr /\ result'.doc = NoDoc
       ELSE /\ result'.err = NoErr
            /\ Len(result'.doc.lifelines) = Len(actors)
            /\ Len(result'.doc.prims) = Len(steps)
            /\ Len(result'.doc.boxes) =
                 Cardinality({i \in DOMAIN sections :
                                heap[sections[i]].firstStepIndex # Nil})
            /\ result'.doc # NoDoc]_vars

\* C9 witness: Generate has returned a document with a box although a
\* section that never received a step was still open (it is no longer
\* listed).
C9_Witness ==
  /\ last.op = "Generate"
  /\ result.err = NoErr
  /\ Len(result.doc.boxes) = 1
  /\ \E id \in DOMAIN heap : heap[id].firstStepIndex = Nil
                             /\ ~Contains(sections, id)

\* C10, as claimed: when some step has an empty source or target, Generate
\* fails with the error that gives the 1-based position of the first such
\* step.
C10_EmptyActorPositionReported ==
  (last.op = "Generate" /\ EmptyActorSteps # {})
    => result.err = ErrEmptyActor(SetMin(EmptyActorSteps))

\* C10, amended: AddStep appends every step it is given; when some step has
\* an empty source or target, Generate fails without a document, with the
\* error "sequence has no actors" if the ordered actor list is empty and
\* otherwise with the error that gives the 1-based position of the first such
\* step.
C10_EmptyActorReportedAfterActorCheck ==
  [][/\ last'.op = "AddStep" =>
          /\ Len(steps') = Len(steps) + 1
          /\ \A k \in DOMAIN steps : steps'[k] = steps[k]
     /\ (last'.op = "Generate" /\ EmptyActorSteps # {}) =>
          /\ result'.doc = NoDoc
          /\ result'.err = IF Len(actors) = 0 THEN ErrNoActors
                           ELSE ErrEmptyActor(SetMin(EmptyActorSteps))]_vars

\* C10 witness: Generate has reported step #2, whose target alone is empty,
\* after a first step with both actors.
C10_Witness ==
  /\ last.op = "Generate"
  /\ Len(steps) = 2
  /\ steps[1].SourceActor # "" /\ steps[1].TargetActor # ""
  /\ steps[2].SourceActor # "" /\ steps[2].TargetActor = ""
  /\ result.err = ErrEmptyActor(2)

\* the y increment the claim gives the step appended last
ClaimedIncrement ==
  stepHeight + 14 * (LineCount(steps'[Len(steps')].Description) - 1)

\* the y the step appended last starts from
PreviousY == IF steps = <<>> THEN actorFontSize + 2 ELSE steps[Len(steps)].y

\* C6, as claimed: each AddStep gives the new step the previous y (the
\* origin actorFontSize + 2 for the first step) plus stepHeight +
\* 14*(lines - 1), which is above the previous step's y whatever
\* SetStepHeight calls came before, and leaves the y of earlier steps alone.
C6_StepYStrictlyIncreasing ==
  [][last'.op = "AddStep" =>
       /\ Len(steps') = Len(steps) + 1
       /\ steps'[Len(steps')].y = PreviousY + ClaimedIncrement
       /\ steps # <<>> => steps'[Len(steps')].y > steps[Len(steps)].y
       /\ \A k \in DOMAIN steps : steps'[k].y = steps[k].y]_vars

\* C6, amended: each AddStep gives the new step the previous y (the origin
\* for the first step) plus stepHeight + 14*(lines - 1), with the step
\* height in force at that call; the new y is above the previous step's y
\* exactly when that increment is positive; the y of earlier steps is left
\* alone.
C6_StepYIncrement ==
  [][last'.op = "AddStep" =>
       /\ Len(steps') = Len(steps) + 1
       /\ steps'[Len(steps')].y = PreviousY + ClaimedIncrement
       /\ steps # <<>> => (steps'[Len(steps')].y > steps[Len(steps)].y
                             <=> ClaimedIncrement > 0)
       /\ \A k \in DOMAIN steps : steps'[k].y = steps[k].y]_vars

\* C6 witness: a first step of two lines under the default height, then,
\* after SetStepHeight(25), a second step of three lines.
C6_Witness ==
  /\ last.op = "AddStep"
  /\ Len(steps) = 2
  /\ stepHeight = 25
  /\ steps[1].y = 18 + 50 + 14
  /\ steps[2].y = steps[1].y + 25 + 28

\* the sum the claim takes over the first k steps, with the step height in
\* force at Generate
RECURSIVE ClaimedHeights(_)
ClaimedHeights(k) ==
  IF k = 0 THEN 0
  ELSE ClaimedHeights(k - 1)
         + stepHeight + 14 * (LineCount(steps[k].Description) - 1)

\* stepHeight/2 as Go computes it on ints: the quotient cut toward zero
HalfStepHeight ==
  IF stepHeight >= 0 THEN stepHeight \div 2 ELSE 0 - ((0 - stepHeight) \div 2)

\* the height before rounding
UnroundedHeight ==
  (actorFontSize + 2) + ClaimedHeights(Len(steps)) + HalfStepHeight

\* C11: the canvas height of a document is a multiple of actorFontSize/2 = 8,
\* and the smallest one that is >= (actorFontSize + 2) + the sum over the
\* steps of stepHeight + 14*(lines - 1) + stepHeight/2 (the integer
\* quotient); the rounding loop adds at most 7, so it ends, for positive,
\* zero and negative step heights alike.
C11_HeightIsNextMultipleOfDash ==
  (last.op = "Generate" /\ result.err = NoErr) =>
    /\ result.doc.height % (actorFontSize \div 2) = 0
    /\ actorFontSize \div 2 = 8
    /\ result.doc.height >= UnroundedHeight
    /\ result.doc.height - UnroundedHeight <= 7

\* C11 witness: Generate has rounded a negative height up (three steps, one
\* of them of three lines, under SetStepHeight(-20)).
C11_Witness ==
  /\ last.op = "Generate"
  /\ result.err = NoErr
  /\ stepHeight = 0 - 20
  /\ Len(steps) = 3
  /\ \E k \in DOMAIN steps : LineCount(steps[k].Description) = 3
  /\ UnroundedHeight < 0
  /\ result.doc.height > UnroundedHeight

\* the actors of the first k steps in order of first reference, the source
\* of a step before its target
RECURSIVE FirstReferences(_)
FirstReferences(k) ==
  IF k = 0 THEN <<>>
  ELSE LET prev == FirstReferences(k - 1)
           withSrc == IF Contains(prev, steps[k].SourceActor) THEN prev
                      ELSE Append(prev, steps[k].SourceActor)
       IN IF Contains(withSrc, steps[k].TargetActor) THEN withSrc
          ELSE Append(withSrc, steps[k].TargetActor)

\* what the claim promises of a Generate call on a model built with AddStep
\* and with sections that are not nested and all received a step
ScenarioDocument ==
  /\ result'.err = NoErr
  /\ [i \in DOMAIN result'.doc.lifelines |-> result'.doc.lifelines[i].name]
       = FirstReferences(Len(steps))
  /\ Len(result'.doc.boxes) = Len(heap)
  /\ \A id \in DOMAIN heap :
       /\ result'.doc.boxes[id].sec = id
       /\ result'.doc.boxes[id].name = SectionNames[id]
       /\ {k \in DOMAIN steps : steps[k].section = id}
            = (heap[id].firstStepIndex + 1) .. (heap[id].lastStepIndex + 1)
  /\ Len(result'.doc.prims) = Len(steps)
  /\ \A k \in DOMAIN steps :
       /\ result'.doc.prims[k].kind \in {"dot", "arrow"}
       /\ result'.doc.prims[k].y = steps[k].y

\* what the claim promises of the construction calls: a step added while a
\* section is open is a member of it, a step added while none is open is a
\* member of none, and a close ends the section at the step added last
ScenarioMembership ==
  /\ last'.op = "AddStep" =>
       /\ steps'[Len(steps')].section =
            IF userOpen = <<>> THEN NoSection ELSE userOpen[Len(userOpen)]
       /\ \A k \in DOMAIN steps : steps'[k].section = steps[k].section
  /\ last'.op = "CloseSection" =>
       /\ heap'[userOpen[Len(userOpen)]].lastStepIndex = Len(steps) - 1
       /\ \A k \in DOMAIN steps :
            steps[k].section = userOpen[Len(userOpen)]
              <=> k - 1 >= heap[userOpen[Len(userOpen)]].firstStepIndex

\* C12, as claimed: on a model built with AddStep, OpenSection and
\* CloseSection only, its steps with source and target, its sections not
\* nested, each given a step and closed, Generate succeeds with a lifeline
\* per actor in order of first reference, a box per section whose members
\* are the steps added between its open and its close, and a dot or an
\* arrow per step in insertion order.
C12_WellFormedModelRenders ==
  [][/\ ScenarioMembership
     /\ (last'.op = "Generate" /\ generated = 0 /\ userOpen = <<>>)
          => ScenarioDocument]_vars

\* C12, amended: the same of a model that has at least one step.
C12_WellFormedModelWithStepsRenders ==
  [][/\ ScenarioMembership
     /\ (last'.op = "Generate" /\ generated = 0 /\ userOpen = <<>>
           /\ Len(steps) > 0)
          => ScenarioDocument]_vars

\* C12 witness: the README example (A for Bob, B for Maria) has given two
\* lifelines, one box and an arrow, a dot with two description lines and an
\* arrow.
C12_Witness ==
  /\ last.op = "Generate"
  /\ result.err = NoErr
  /\ Len(steps) = 3
  /\ steps[1].section = NoSection /\ steps[2].section = 1 /\ steps[3].section = 1
  /\ heap[1].firstStepIndex = 1 /\ heap[1].lastStepIndex = 2
  /\ [i \in DOMAIN result.doc.lifelines |-> result.doc.lifelines[i].name]
       = <<"A", "B">>
  /\ Len(result.doc.boxes) = 1
  /\ [k \in DOMAIN result.doc.prims |-> result.doc.prims[k].kind]
       = <<"arrow", "dot", "arrow">>
  /\ [k \in DOMAIN result.doc.prims |-> result.doc.prims[k].texts] = <<1, 2, 1>>

OpenSections == {id \in Range(sections) : heap[id].lastStepIndex = Nil}

\* C14: AddStep gives the new step the open section opened last
\* (identifiers grow in opening order), or none if no section is open; every
\* open section without a first index takes the new step's index as its
\* first and nothing else of a section changes; the new step has one section
\* at most, and the sections of the earlier steps stay.
C14_StepJoinsInnermostOpenSection ==
  [][last'.op = "AddStep" =>
       /\ steps'[Len(steps')].section =
            IF OpenSections = {} THEN NoSection ELSE SetMax(OpenSections)
       /\ Cardinality({id \in DOMAIN heap : steps'[Len(steps')].section = id}) <= 1
       /\ \A id \in DOMAIN heap :
            heap'[id] =
              IF id \in OpenSections /\ heap[id].firstStepIndex = Nil
              THEN [heap[id] EXCEPT !.firstStepIndex = Len(steps)]
              ELSE heap[id]
       /\ \A k \in DOMAIN steps : steps'[k].section = steps[k].section]_vars

\* C14 witness: with S and T both open, S holding the first step, the
\* second step has joined T and is T's first.
C14_Witness ==
  /\ last.op = "AddStep"
  /\ Len(steps) = 2
  /\ Len(heap) = 2
  /\ heap[1].firstStepIndex = 0 /\ heap[1].lastStepIndex = Nil
  /\ heap[2].firstStepIndex = 1 /\ heap[2].lastStepIndex = Nil
  /\ steps[1].section = 1
  /\ steps[2].section = 2

\* the vertical range of the b-th box of the document, in half pixels
BoxTop(b) == result.doc.boxes[b].y
BoxBottom(b) == result.doc.boxes[b].y + 2 * result.doc.boxes[b].height

\* the index range of the section of the b-th box
BoxFirst(b) == heap[result.doc.boxes[b].sec].firstStepIndex
BoxLast(b) == heap[result.doc.boxes[b].sec].lastStepIndex

\* C15: in the document of a first Generate under the default step height,
\* two boxes whose sections were closed one after the other have disjoint
\* vertical ranges, and of two boxes whose sections are nested the inner
\* range lies within the outer one, which holds the y of every step from
\* the outer section's first step to its last.
C15_BoxesNeverPartiallyOverlap ==
  (last.op = "Generate" /\ generated = 1 /\ result.err = NoErr
     /\ stepHeight = defaultStepHeight) =>
    \A a \in DOMAIN result.doc.boxes, b \in DOMAIN result.doc.boxes :
      /\ BoxLast(a) < BoxFirst(b) => BoxBottom(a) < BoxTop(b)
      /\ (a < b /\ BoxFirst(a) <= BoxFirst(b) /\ BoxLast(b) <= BoxLast(a)) =>
           /\ BoxTop(a) <= BoxTop(b) /\ BoxBottom(b) <= BoxBottom(a)
           /\ \A k \in (BoxFirst(a) + 1) .. (BoxLast(a) + 1) :
                BoxTop(a) <= 2 * steps[k].y /\ 2 * steps[k].y <= BoxBottom(a)

\* C16: the canvas width of a document is 2*margin + distance * N, N being
\* the number of actors in the ordered actor list, which is the number of
\* lifelines drawn.
C16_WidthCountsListedActors ==
  (last.op = "Generate" /\ result.err = NoErr) =>
    /\ Len(result.doc.lifelines) = Len(actors)
    /\ result.doc.width = 2 * margin + distance * Len(actors)

\* C17: the ordered actor list has no duplicates and only keys of
\* actorsMap; whenever the model passes Generate's validation (actors and
\* steps exist, no step has an empty source or target) actorsMap holds a
\* record for the source and the target of every step; Generate never reads
\* a missing record.
C17_NoMissingActorRecord ==
  /\ \A i \in DOMAIN actors, j \in DOMAIN actors :
       actors[i] = actors[j] => i = j
  /\ Range(actors) \subseteq DOMAIN actorsMap
  /\ (Len(actors) > 0 /\ Len(steps) > 0 /\ EmptyActorSteps = {}) =>
       \A k \in DOMAIN steps :
         /\ steps[k].SourceActor \in DOMAIN actorsMap
         /\ steps[k].TargetActor \in DOMAIN actorsMap
  /\ result.err # ErrNilActor

\* C17 witness: Generate has returned a document for a step whose actor
\* AddActors had taken off the ordered list: its record is still there.
C17_Witness ==
  /\ last.op = "Generate"
  /\ result.err = NoErr
  /\ \E k \in DOMAIN steps :
       /\ steps[k].SourceActor \notin Range(actors)
       /\ steps[k].SourceActor \in DOMAIN actorsMap

\* the sections, listed or not, that have both indices
Indexed(h) == {id \in DOMAIN h : h[id].firstStepIndex # Nil
                                  /\ h[id].lastStepIndex # Nil}

HeightUsedAt(k) ==
  steps[k].y - (IF k = 1 THEN actorFontSize + 2 ELSE steps[k - 1].y)
             - 14 * (LineCount(steps[k].Description) - 1)

\* C19: when Generate succeeds on a model whose steps were all added under
\* non-negative step heights and whose step height is non-negative, every
\* step's y is at most the canvas height, wherever the SetStepHeight calls
\* were placed among the AddStep calls.
C19_StepsInsideCanvas ==
  (/\ last.op = "Generate"
   /\ result.err = NoErr
   /\ stepHeight >= 0
   /\ \A k \in DOMAIN steps : HeightUsedAt(k) >= 0) =>
    \A k \in DOMAIN steps : steps[k].y <= result.doc.height

\* the summed heights of the steps Generate folds into the section id
RECURSIVE MemberHeights(_, _)
MemberHeights(id, k) ==
  IF k = 0 THEN 0
  ELSE MemberHeights(id, k - 1)
         + (IF steps[k].section = id
            THEN getHeight(stepHeight, steps[k].Description) ELSE 0)

\* C20, as claimed: a Generate call that directly follows a Generate call
\* returns the same result, the same boxes included.
C20_GenerateIsIdempotent ==
  [][(last.op = "Generate" /\ last'.op = "Generate") => result' = result]_vars

\* whether Generate folds some step into the section id
HasMembers(id) == \E k \in DOMAIN steps : steps[k].section = id

\* C20, amended: under the default distance and step height, a Generate
\* call that directly follows a Generate call returns the same error, or a
\* document with the same canvas, lifelines and step primitives and with
\* the same boxes but for this: the height of a box grows by the summed
\* heights of its member steps, less the 4 taken off for a horizontal
\* label, and the y of a box without member steps grows by the 2 added for
\* a horizontal label; x and width stay, and so does the y of a box with
\* member steps. The two results are equal when no box is drawn.
C20_RegenerationGrowsBoxHeights ==
  [][(last.op = "Generate" /\ last'.op = "Generate") =>
       /\ result'.err = result.err
       /\ result'.doc.width = result.doc.width
       /\ result'.doc.height = result.doc.height
       /\ result'.doc.lifelines = result.doc.lifelines
       /\ result'.doc.prims = result.doc.prims
       /\ DOMAIN result'.doc.boxes = DOMAIN result.doc.boxes
       /\ \A b \in DOMAIN result.doc.boxes :
            result'.doc.boxes[b] =
              [result.doc.boxes[b] EXCEPT
                 !.height = @ + MemberHeights(result.doc.boxes[b].sec, Len(steps))
                              - (IF verticalSectionText THEN 0 ELSE 4),
                 !.y = IF HasMembers(result.doc.boxes[b].sec)
                          \/ verticalSectionText
                       THEN @ ELSE @ + 2 * 2]
       /\ result.doc.boxes = <<>> => result' = result]_vars

\* C20 witness: the second Generate in a row has drawn the box of a section
\* of one step 82 high, where the first drew it 36 high.
C20_Witness ==
  /\ last.op = "Generate"
  /\ generated = 2
  /\ result.err = NoErr
  /\ Len(steps) = 1
  /\ ~verticalSectionText
  /\ Len(result.doc.boxes) = 1
  /\ result.doc.boxes[1].height = 36 + 50 - 4

====
